---- MODULE Spec2Model ----
(***************************************************************************)
(* A model of kanji_test's drill engine (src/kanji_test/drill/models.py):  *)
(* the item model (Question, MultipleChoiceQuestion.add_options, options,  *)
(* responses), the seeded sequencer (TestSet.ordered_questions and         *)
(* ordered_responses), the scorer (get_coverage, get_accuracy) and the     *)
(* test-set builder (TestSet.from_user).                                   *)
(*                                                                         *)
(* Four specifications share the variables:                                *)
(*   SpecPivot    Question.__init__ applied to every small pivot           *)
(*   SpecOptions  add_options applied to a stored question                 *)
(*   Spec         several test sets built and ordered in one process       *)
(*   SpecScore    one test set: its build, responses, orderings, scores    *)
(***************************************************************************)
EXTENDS Integers, Sequences, FiniteSets, TLC

VARIABLES
    questions,  \* the stored Question rows, by id (a sequence: id = index)
    options,    \* question id -> set of MultipleChoiceOption rows
    lastInit,   \* the outcome of the last Question(...) construction
    lastAdd,    \* the outcome of the last add_options call
    rng,        \* the state of the process-wide generator of module random
    plugins,    \* the loaded question plugins (load_plugins())
    testsets,   \* the stored TestSet rows, by id
    clock,      \* the store's clock (Response.timestamp is auto_now_add)
    build,      \* the from_user call in progress, if any
    ordLog,     \* every sequence ordered_questions has returned so far
    last        \* the outcome of the last test-set operation

vars == <<questions, options, lastInit, lastAdd, rng, plugins, testsets,
          clock, build, ordLog, last>>

None == [op |-> "none"]

(***************************************************************************)
(* Bounds of the model.                                                    *)
(***************************************************************************)
MaxPivotLen == 2      \* pivots of 0..MaxPivotLen characters are constructed
MaxStored == 2        \* SpecPivot saves at most this many questions
MaxDistractors == 2   \* add_options gets 0..MaxDistractors distractors
RngMod == 8           \* the generator has RngMod states
SeedRange == 2        \* seeds are drawn from 0..SeedRange-1 (for 2**30)
MaxTestSets == 2      \* Spec builds at most this many test sets
QuestionsPerSet == 2  \* settings.QUESTIONS_PER_SET
MaxResponses == 3     \* a test set takes at most this many responses
MaxTime == 1          \* the clock runs from 0 to MaxTime

Range(s) == {s[i] : i \in 1..Len(s)}

Distinct(seq) == \A i, j \in 1..Len(seq) : i # j => seq[i] # seq[j]

SeqsUpTo(S, n) == UNION {[1..k -> S] : k \in 0..n}

(***************************************************************************)
(* Question.__init__: the sanity check of the pivot.                       *)
(***************************************************************************)
\* characters of three scripts: a kanji, a hiragana and an ASCII letter
PivotChars == {"K", "h", "a"}

Pivots == SeqsUpTo(PivotChars, MaxPivotLen)

\* PIVOT_TYPES
PivotTypes == {"k", "w"}

\* cjktools' scripts.ScriptType / scriptType: the script of the first
\* character of its argument ("Unknown" when there is none)
ScriptType(pivot) ==
    IF Len(pivot) = 0 THEN "Unknown"
    ELSE CASE pivot[1] = "K" -> "Kanji"
           [] pivot[1] = "h" -> "Hiragana"
           [] OTHER -> "Ascii"

\* models.py 89-90: the condition under which a kanji pivot raises
KanjiPivotRejected(pivot) ==
    Len(pivot) # 1 /\ ScriptType(pivot) # "Kanji"

\* models.py 93: the condition under which a word pivot raises
WordPivotRejected(pivot) == Len(pivot) < 1

\* Question.__init__: "ok", or "InvalidPivot" for ValueError(self.pivot)
QuestionInit(pivot, pivot_type) ==
    IF pivot_type = "k"
    THEN IF KanjiPivotRejected(pivot) THEN "InvalidPivot" ELSE "ok"
    ELSE IF pivot_type = "w"
    THEN IF WordPivotRejected(pivot) THEN "InvalidPivot" ELSE "ok"
    ELSE "ok"

(***************************************************************************)
(* MultipleChoiceQuestion.add_options and the option rows.                 *)
(***************************************************************************)
\* option values; "" is the empty (falsy) string
Values == {"", "a", "b", "c"}

OptionRow == [value : Values, is_correct : BOOLEAN]

\* models.py 118: answer in distractor_values
AnswerInDistractors(distractor_values, answer) ==
    \E i \in 1..Len(distractor_values) : distractor_values[i] = answer

IsTruthy(v) == v # ""

\* models.py 121-122: filter(None, ...) drops the empty values
HasEmptyValue(distractor_values, answer) ==
    \/ Len(SelectSeq(distractor_values, IsTruthy)) < Len(distractor_values)
    \/ ~IsTruthy(answer)

\* a mutant: the uniqueness check left out
HasDuplicate_Never(distractor_values, answer) == FALSE

\* models.py 125: len(set(distractor_values + [answer])) < len(...) + 1
HasDuplicate(distractor_values, answer) ==
    Cardinality(Range(distractor_values \o <<answer>>))
        < Len(distractor_values) + 1

\* a mutant: create ignores the flag it is given
CreateOption_AlwaysCorrect(opts, value, is_correct) ==
    IF \E o \in opts : o.value = value
    THEN [outcome |-> "IntegrityError", options |-> opts]
    ELSE [outcome |-> "ok",
          options |-> opts \cup {[value |-> value, is_correct |-> TRUE]}]

\* self.options.create(value, is_correct): one INSERT; the store enforces
\* unique_together (question, value) and refuses a second row of a value
CreateOption(opts, value, is_correct) ==
    IF \E o \in opts : o.value = value
    THEN [outcome |-> "IntegrityError", options |-> opts]
    ELSE [outcome |-> "ok",
          options |-> opts \cup {[value |-> value, is_correct |-> is_correct]}]

\* a mutant: the answer's row is created with is_correct left at its default
CreateAnswer_NotCorrect(opts, answer) == CreateOption(opts, answer, FALSE)

\* models.py 133
CreateAnswer(opts, answer) == CreateOption(opts, answer, TRUE)

\* models.py 128-132: the distractor rows are created one by one; a create
\* that raises ends the loop and leaves the rows created before it
RECURSIVE CreateDistractors(_, _)
CreateDistractors(opts, distractor_values) ==
    IF Len(distractor_values) = 0
    THEN [outcome |-> "ok", options |-> opts]
    ELSE LET r == CreateOption(opts, Head(distractor_values), FALSE)
         IN  IF r.outcome # "ok" THEN r
             ELSE CreateDistractors(r.options, Tail(distractor_values))

\* a mutant: the membership check left out
AnswerIsDistractorCheck_Never(distractor_values, answer) == FALSE

\* models.py 118-119
AnswerIsDistractorCheck(distractor_values, answer) ==
    AnswerInDistractors(distractor_values, answer)

\* add_options(distractor_values, answer) on a question whose option rows
\* are opts: the outcome and the rows afterwards.  The three ValueErrors
\* are named as the specification names them.
add_options(opts, distractor_values, answer) ==
    IF AnswerIsDistractorCheck(distractor_values, answer)
    THEN [outcome |-> "AnswerIsDistractor", options |-> opts]
    ELSE IF HasEmptyValue(distractor_values, answer)
    THEN [outcome |-> "EmptyOptionValue", options |-> opts]
    ELSE IF HasDuplicate(distractor_values, answer)
    THEN [outcome |-> "DuplicateOptionValue", options |-> opts]
    ELSE LET r == CreateDistractors(opts, distractor_values)
         IN  IF r.outcome # "ok" THEN r
             ELSE CreateAnswer(r.options, answer)

DistractorLists == SeqsUpTo(Values, MaxDistractors)

(***************************************************************************)
(* The actions of the item model.                                          *)
(***************************************************************************)
\* Question(pivot=..., pivot_type=...): the construction, and its outcome
ConstructQuestion(pivot, pivot_type) ==
    /\ lastInit' = [op |-> "init", pivot |-> pivot, pivot_type |-> pivot_type,
                    outcome |-> QuestionInit(pivot, pivot_type)]
    /\ UNCHANGED <<questions, options, lastAdd, rng, plugins, testsets,
                   clock, build, ordLog, last>>

\* question.save() of the question just constructed
SaveQuestion ==
    /\ lastInit # None
    /\ lastInit.outcome = "ok"
    /\ Len(questions) < MaxStored
    /\ questions' = Append(questions, [pivot |-> lastInit.pivot,
                                       pivot_type |-> lastInit.pivot_type])
    /\ options' = [q \in 1..Len(questions) + 1 |->
                     IF q \in DOMAIN options THEN options[q] ELSE {}]
    /\ UNCHANGED <<lastInit, lastAdd, rng, plugins, testsets, clock, build,
                   ordLog, last>>

\* question.add_options(distractor_values, answer) on a stored question
AddOptions(q, distractor_values, answer) ==
    LET r == add_options(options[q], distractor_values, answer)
    IN  /\ options' = [options EXCEPT ![q] = r.options]
        /\ lastAdd' = [op |-> "add_options", question |-> q,
                       distractor_values |-> distractor_values,
                       answer |-> answer, before |-> options[q],
                       outcome |-> r.outcome]
        /\ UNCHANGED <<questions, lastInit, rng, plugins, testsets, clock,
                       build, ordLog, last>>

\* question.options.all().delete(), as the tests do after each question
DeleteOptions(q) ==
    /\ options[q] # {}
    /\ options' = [options EXCEPT ![q] = {}]
    /\ lastAdd' = None
    /\ UNCHANGED <<questions, lastInit, rng, plugins, testsets, clock,
                   build, ordLog, last>>

InitIdle ==
    /\ lastInit = None
    /\ lastAdd = None
    /\ rng = 0
    /\ plugins = <<>>
    /\ testsets = <<>>
    /\ clock = 0
    /\ build = None
    /\ ordLog = {}
    /\ last = None

InitPivot ==
    /\ InitIdle
    /\ questions = <<>>
    /\ options = <<>>

NextPivot ==
    \/ \E pivot \in Pivots, pivot_type \in PivotTypes :
         ConstructQuestion(pivot, pivot_type)
    \/ SaveQuestion

SpecPivot == InitPivot /\ [][NextPivot]_vars

\* one stored question, without options yet
InitOptions ==
    /\ InitIdle
    /\ questions = << [pivot |-> <<"K">>, pivot_type |-> "k"] >>
    /\ options = [q \in 1..1 |-> {}]

NextOptions ==
    \/ \E q \in DOMAIN options, d \in DistractorLists, answer \in Values :
         AddOptions(q, d, answer)
    \/ \E q \in DOMAIN options : DeleteOptions(q)

SpecOptions == InitOptions /\ [][NextOptions]_vars

(***************************************************************************)
(* The generator of module random, scaled down: a linear congruential      *)
(* generator over 0..RngMod-1 stands for the Mersenne twister.  What the   *)
(* model keeps is what the code relies on: seed() sets the whole state     *)
(* from its argument, and each draw depends on the state and advances it.  *)
(***************************************************************************)
RngStep(state) == (5 * state + 3) % RngMod

\* random.seed(a): the state is a function of a alone
RngSeed(a) == (3 * a + 1) % RngMod

\* int(random.random() * n): a value below n (n > 0) and the state after
RandBelow(state, n) ==
    [value |-> (RngStep(state) \div 2) % n, state |-> RngStep(state)]

\* a mutant: the shuffle runs on whatever state the generator is in
SeededState_Unseeded(random_seed, state) == state

\* models.py 173 (and 182): random.seed(self.random_seed)
SeededState(random_seed, state) == RngSeed(random_seed)

Swap(seq, i, j) == [seq EXCEPT ![i] = seq[j], ![j] = seq[i]]

\* random.shuffle(x): for i from the last index down to the second,
\* exchange x[i] with x[j], j = int(random() * (i + 1)) over 0-based i
RECURSIVE ShuffleFrom(_, _, _)
ShuffleFrom(seq, i, state) ==
    IF i < 2
    THEN [list |-> seq, state |-> state]
    ELSE LET r == RandBelow(state, i)
         IN  ShuffleFrom(Swap(seq, i, r.value + 1), i - 1, r.state)

Shuffle(seq, state) == ShuffleFrom(seq, Len(seq), state)

Min(S) == CHOOSE x \in S : \A y \in S : x <= y

\* questions.order_by('id'): the ids in ascending order
RECURSIVE OrderById(_)
OrderById(ids) ==
    IF ids = {} THEN <<>>
    ELSE <<Min(ids)>> \o OrderById(ids \ {Min(ids)})

(***************************************************************************)
(* The sequencer and the scorer, as functions of a stored test set.        *)
(***************************************************************************)
\* TestSet.ordered_questions: the list returned and the generator's state
\* afterwards
ordered_questions(test_set, state) ==
    Shuffle(OrderById(test_set.questions),
            SeededState(test_set.random_seed, state))

\* TestSet.ordered_responses: line 179 calls lits, a name bound nowhere, so
\* the call raises NameError before it reads a response or touches the
\* generator; lines 180-184 are never reached
ordered_responses(test_set, state) ==
    [outcome |-> "NameError", state |-> state]

\* response.is_correct(): the flag of the option row the response selected
ResponseIsCorrect(r) ==
    \E o \in options[r.question] : o.value = r.option /\ o.is_correct

\* a mutant: the operands of the division exchanged
get_coverage_Inverted(test_set) ==
    IF Cardinality(test_set.responses) = 0
    THEN [outcome |-> "ZeroDivisionError"]
    ELSE [outcome |-> "ok", num |-> Cardinality(test_set.questions),
          den |-> Cardinality(test_set.responses)]

\* TestSet.get_coverage: float(responses.count()) / questions.count(), kept
\* as numerator and denominator; a zero divisor raises ZeroDivisionError
get_coverage(test_set) ==
    IF Cardinality(test_set.questions) = 0
    THEN [outcome |-> "ZeroDivisionError"]
    ELSE [outcome |-> "ok", num |-> Cardinality(test_set.responses),
          den |-> Cardinality(test_set.questions)]

\* TestSet.get_accuracy
get_accuracy(test_set) ==
    IF Cardinality(test_set.questions) = 0
    THEN [outcome |-> "ZeroDivisionError"]
    ELSE [outcome |-> "ok",
          num |-> Cardinality({r \in test_set.responses : ResponseIsCorrect(r)}),
          den |-> Cardinality(test_set.questions)]

(***************************************************************************)
(* The collaborators of the builder: the syllabus, the plugin registry and *)
(* the question factories.                                                 *)
(***************************************************************************)
\* the concepts of the syllabus: a kanji and a word written without kanji
Items ==
    { [pivot |-> <<"K">>, pivot_type |-> "k", has_kanji |-> TRUE],
      [pivot |-> <<"h", "h">>, pivot_type |-> "w", has_kanji |-> FALSE] }

\* the values that are correct answers for a concept (for a kanji: its
\* real readings)
CorrectAnswers(pivot) == IF pivot = <<"K">> THEN {"a", "b"} ELSE {"a"}

\* the factories that can be configured, in configuration order
PluginPool ==
    << [name |-> "reading", requires_kanji |-> TRUE],
       [name |-> "surface", requires_kanji |-> TRUE],
       [name |-> "gloss", requires_kanji |-> FALSE] >>

\* the lists load_plugins() can return: the first factories configured
PluginLists == {SubSeq(PluginPool, 1, n) : n \in 1..Len(PluginPool)}

\* syllabus.get_random_items(QUESTIONS_PER_SET): the batches of a syllabus
\* that has QUESTIONS_PER_SET concepts or more, and those of any syllabus
FullBatches == [1..QuestionsPerSet -> Items]

ItemBatches == SeqsUpTo(Items, QuestionsPerSet)

\* the values a user's error distribution can offer as confusable: any
\* value, or (for a user with a short error history) a few of them
AnyCandidates == Values

FewCandidates == {"a", "c"}

\* what a factory passes to add_options when it finds enough distractors
\* among the candidates: a correct answer of the concept and distinct
\* non-empty distractors, none of them a correct answer of the concept.
\* (The candidates come from the user's error distribution, an external
\* collaborator; the model does not have the factories draw from the
\* generator of module random.)
FactoryChoices(item, candidates) ==
    { c \in [distractor_values : DistractorLists \ {<<>>},
             answer : CorrectAnswers(item.pivot)] :
        /\ Distinct(c.distractor_values)
        /\ \A v \in Range(c.distractor_values) :
             /\ v \in candidates
             /\ v # ""
             /\ v \notin CorrectAnswers(item.pivot) }

(***************************************************************************)
(* The actions on test sets.                                               *)
(***************************************************************************)
\* from_user, lines 196-203: the seed is drawn from the process-wide
\* generator, the row saved, the plugins and the batch of items fetched
FromUserStart(max_sets, items) ==
    /\ build = None
    /\ Len(testsets) < max_sets
    /\ LET r == RandBelow(rng, SeedRange)
       IN  /\ rng' = r.state
           /\ testsets' = Append(testsets, [random_seed |-> r.value,
                                            questions |-> {},
                                            responses |-> {}])
    /\ build' = [op |-> "from_user", test_set |-> Len(testsets) + 1,
                 items |-> items, questions |-> <<>>]
    /\ last' = None
    /\ UNCHANGED <<questions, options, lastInit, lastAdd, plugins, clock,
                   ordLog>>

\* from_user has no handler: an exception of random.choice or get_question
\* leaves the loop and the call; the saved row keeps no questions
GetQuestionFailed(b) == None

\* from_user, lines 204-209, one turn of the loop: an eligible plugin is
\* chosen with random.choice (IndexError when none is eligible) and its
\* get_question either fails with InsufficientDistractors or stores a new
\* question and calls add_options on it
FromUserItem(candidates) ==
    /\ build # None
    /\ build.items # <<>>
    /\ LET item == Head(build.items)
           available_plugins ==
               SelectSeq(plugins, LAMBDA p : p.requires_kanji = item.has_kanji)
       IN  IF Len(available_plugins) = 0
           THEN /\ rng' = RngStep(rng)
                /\ build' = GetQuestionFailed(build)
                /\ last' = [op |-> "from_user", test_set |-> build.test_set,
                            outcome |-> "IndexError"]
                /\ UNCHANGED <<questions, options>>
           ELSE LET r == RandBelow(rng, Len(available_plugins))
                    chosen_plugin == available_plugins[r.value + 1]
                IN  /\ rng' = r.state
                    /\ \/ /\ build' = GetQuestionFailed(build)
                          /\ last' = [op |-> "from_user",
                                      test_set |-> build.test_set,
                                      outcome |-> "InsufficientDistractors"]
                          /\ UNCHANGED <<questions, options>>
                       \/ \E c \in FactoryChoices(item, candidates) :
                            /\ QuestionInit(item.pivot, item.pivot_type) = "ok"
                            /\ questions' = Append(questions,
                                 [pivot |-> item.pivot,
                                  pivot_type |-> item.pivot_type,
                                  question_plugin |-> chosen_plugin.name])
                            /\ options' =
                                 [q \in 1..Len(questions) + 1 |->
                                    IF q \in DOMAIN options THEN options[q]
                                    ELSE add_options({}, c.distractor_values,
                                                     c.answer).options]
                            /\ build' = [build EXCEPT
                                 !.items = Tail(build.items),
                                 !.questions = Append(build.questions,
                                                      Len(questions) + 1)]
                            /\ last' = None
    /\ UNCHANGED <<lastInit, lastAdd, plugins, testsets, clock, ordLog>>

\* from_user, lines 211-212: the questions are attached and the set returned
FromUserFinish ==
    /\ build # None
    /\ build.items = <<>>
    /\ testsets' = [testsets EXCEPT
                      ![build.test_set].questions = Range(build.questions)]
    /\ build' = None
    /\ last' = [op |-> "from_user", test_set |-> build.test_set,
                outcome |-> "ok"]
    /\ UNCHANGED <<questions, options, lastInit, lastAdd, rng, plugins,
                   clock, ordLog>>

\* test_set.ordered_questions
OrderedQuestions(t) ==
    LET r == ordered_questions(testsets[t], rng)
        entry == [test_set |-> t, random_seed |-> testsets[t].random_seed,
                  questions |-> testsets[t].questions, order |-> r.list]
    IN  /\ build = None
        /\ rng' = r.state
        /\ ordLog' = ordLog \cup {entry}
        /\ last' = [op |-> "ordered_questions", test_set |-> t,
                    outcome |-> "ok", order |-> r.list,
                    repeated |-> \E e \in ordLog :
                                   /\ e.test_set = t
                                   /\ e.questions = testsets[t].questions]
        /\ UNCHANGED <<questions, options, lastInit, lastAdd, plugins,
                       testsets, clock, build>>

\* test_set.ordered_responses
OrderedResponses(t) ==
    LET r == ordered_responses(testsets[t], rng)
    IN  /\ build = None
        /\ rng' = r.state
        /\ last' = [op |-> "ordered_responses", test_set |-> t,
                    outcome |-> r.outcome]
        /\ UNCHANGED <<questions, options, lastInit, lastAdd, plugins,
                       testsets, clock, build, ordLog>>

\* test_set.get_coverage()
GetCoverage(t) ==
    /\ build = None
    /\ last' = [op |-> "get_coverage", test_set |-> t,
                result |-> get_coverage(testsets[t])]
    /\ UNCHANGED <<questions, options, lastInit, lastAdd, rng, plugins,
                   testsets, clock, build, ordLog>>

\* test_set.get_accuracy()
GetAccuracy(t) ==
    /\ build = None
    /\ last' = [op |-> "get_accuracy", test_set |-> t,
                result |-> get_accuracy(testsets[t])]
    /\ UNCHANGED <<questions, options, lastInit, lastAdd, rng, plugins,
                   testsets, clock, build, ordLog>>

\* the user answers question q of test set t with the option of value v: a
\* MultipleChoiceResponse row is created with the current time and added
\* to the set's responses; the store refuses a second response to the same
\* question at the same time (unique_together question, user, timestamp)
RecordResponse(t, q, v) ==
    /\ build = None
    /\ q \in testsets[t].questions
    /\ \E o \in options[q] : o.value = v
    /\ Cardinality(testsets[t].responses) < MaxResponses
    /\ IF \E r \in testsets[t].responses :
            r.question = q /\ r.timestamp = clock
       THEN /\ last' = [op |-> "record_response", test_set |-> t,
                        outcome |-> "IntegrityError"]
            /\ UNCHANGED testsets
       ELSE /\ last' = [op |-> "record_response", test_set |-> t,
                        outcome |-> "ok"]
            /\ testsets' = [testsets EXCEPT ![t].responses = @ \cup
                              {[question |-> q, timestamp |-> clock,
                                option |-> v]}]
    /\ UNCHANGED <<questions, options, lastInit, lastAdd, rng, plugins,
                   clock, build, ordLog>>

\* time passes
Tick ==
    /\ clock < MaxTime
    /\ clock' = clock + 1
    /\ UNCHANGED <<questions, options, lastInit, lastAdd, rng, plugins,
                   testsets, build, ordLog, last>>

\* a fresh process on an empty store: the generator is seeded from the
\* system's entropy, the plugins are those the settings name
InitTestSets ==
    /\ lastInit = None
    /\ lastAdd = None
    /\ rng \in 0..RngMod - 1
    /\ plugins \in PluginLists
    /\ testsets = <<>>
    /\ clock = 0
    /\ build = None
    /\ ordLog = {}
    /\ last = None
    /\ questions = <<>>
    /\ options = <<>>

\* the builds of up to MaxTestSets test sets and their orderings, in any
\* order, in one process
Next ==
    \/ \E items \in FullBatches : FromUserStart(MaxTestSets, items)
    \/ FromUserItem(FewCandidates)
    \/ FromUserFinish
    \/ \E t \in DOMAIN testsets : OrderedQuestions(t)

Spec == InitTestSets /\ [][Next]_vars

\* one test set: its build, its responses, its orderings and its scores
NextScore ==
    \/ \E items \in ItemBatches : FromUserStart(1, items)
    \/ FromUserItem(AnyCandidates)
    \/ FromUserFinish
    \/ \E t \in DOMAIN testsets, q \in DOMAIN options, v \in Values :
         RecordResponse(t, q, v)
    \/ Tick
    \/ \E t \in DOMAIN testsets : OrderedQuestions(t)
    \/ \E t \in DOMAIN testsets : OrderedResponses(t)
    \/ \E t \in DOMAIN testsets : GetCoverage(t)
    \/ \E t \in DOMAIN testsets : GetAccuracy(t)

SpecScore == InitTestSets /\ [][NextScore]_vars

(***************************************************************************)
(* The build as another request sees it.  The source opens no transaction, *)
(* so every write of from_user and of add_options reaches the store on its *)
(* own and a read can fall between any two of them.                        *)
(***************************************************************************)
\* from_user, lines 204-209, one turn of the loop up to the point where the
\* chosen factory has stored its question row and calls add_options: the
\* call (its checks of lines 118-126 pass on what a factory hands over) is
\* left pending with the rows it has yet to create
FromUserQuestion(candidates) ==
    /\ build # None
    /\ build.items # <<>>
    /\ lastAdd = None
    /\ LET item == Head(build.items)
           available_plugins ==
               SelectSeq(plugins, LAMBDA p : p.requires_kanji = item.has_kanji)
       IN  IF Len(available_plugins) = 0
           THEN /\ rng' = RngStep(rng)
                /\ build' = GetQuestionFailed(build)
                /\ last' = [op |-> "from_user", test_set |-> build.test_set,
                            outcome |-> "IndexError"]
                /\ UNCHANGED <<questions, options, lastAdd>>
           ELSE LET r == RandBelow(rng, Len(available_plugins))
                    chosen_plugin == available_plugins[r.value + 1]
                IN  /\ rng' = r.state
                    /\ \/ /\ build' = GetQuestionFailed(build)
                          /\ last' = [op |-> "from_user",
                                      test_set |-> build.test_set,
                                      outcome |-> "InsufficientDistractors"]
                          /\ UNCHANGED <<questions, options, lastAdd>>
                       \/ \E c \in FactoryChoices(item, candidates) :
                            /\ QuestionInit(item.pivot, item.pivot_type) = "ok"
                            /\ questions' = Append(questions,
                                 [pivot |-> item.pivot,
                                  pivot_type |-> item.pivot_type,
                                  question_plugin |-> chosen_plugin.name])
                            /\ options' =
                                 [q \in 1..Len(questions) + 1 |->
                                    IF q \in DOMAIN options THEN options[q]
                                    ELSE {}]
                            /\ lastAdd' =
                                 [op |-> "add_options",
                                  question |-> Len(questions) + 1,
                                  distractor_values |-> c.distractor_values,
                                  answer |-> c.answer, before |-> {},
                                  outcome |-> "running"]
                            /\ last' = None
                            /\ UNCHANGED build
    /\ UNCHANGED <<lastInit, plugins, testsets, clock, ordLog>>

\* add_options, lines 128-133, one self.options.create(...) of the pending
\* call: the next distractor's row, or after the last of them the answer's
\* row, with which the call returns and from_user appends the question.  A
\* create the store refuses raises through add_options and from_user.
CreateNextOption ==
    /\ build # None
    /\ lastAdd # None
    /\ lastAdd.outcome = "running"
    /\ LET q == lastAdd.question
           r == IF lastAdd.distractor_values # <<>>
                THEN CreateOption(options[q], Head(lastAdd.distractor_values),
                                  FALSE)
                ELSE CreateAnswer(options[q], lastAdd.answer)
       IN  /\ options' = [options EXCEPT ![q] = r.options]
           /\ IF r.outcome # "ok"
              THEN /\ lastAdd' = None
                   /\ build' = GetQuestionFailed(build)
                   /\ last' = [op |-> "from_user",
                               test_set |-> build.test_set,
                               outcome |-> r.outcome]
              ELSE IF lastAdd.distractor_values # <<>>
              THEN /\ lastAdd' = [lastAdd EXCEPT
                                    !.distractor_values = Tail(@)]
                   /\ last' = None
                   /\ UNCHANGED build
              ELSE /\ lastAdd' = None
                   /\ build' = [build EXCEPT
                                  !.items = Tail(build.items),
                                  !.questions = Append(build.questions, q)]
                   /\ last' = None
    /\ UNCHANGED <<questions, lastInit, rng, plugins, testsets, clock,
                   ordLog>>

\* another request looks a test set up by its id and reads the questions
\* attached to it
ReadTestSet(t) ==
    /\ last' = [op |-> "read_test_set", test_set |-> t,
                found |-> t \in DOMAIN testsets,
                questions |-> IF t \in DOMAIN testsets
                              THEN testsets[t].questions ELSE {}]
    /\ UNCHANGED <<questions, options, lastInit, lastAdd, rng, plugins,
                   testsets, clock, build, ordLog>>

\* another request looks a question up by its id and reads its options
ReadQuestion(q) ==
    /\ last' = [op |-> "read_question", question |-> q,
                found |-> q \in DOMAIN questions,
                options |-> IF q \in DOMAIN options THEN options[q] ELSE {}]
    /\ UNCHANGED <<questions, options, lastInit, lastAdd, rng, plugins,
                   testsets, clock, build, ordLog>>

\* one build of a full batch, write by write, and the reads of another
\* request at any point of it
NextReader ==
    \/ \E items \in FullBatches : FromUserStart(1, items)
    \/ FromUserQuestion(FewCandidates)
    \/ CreateNextOption
    \/ FromUserFinish
    \/ \E t \in 1..MaxTestSets : ReadTestSet(t)
    \/ \E q \in 1..QuestionsPerSet : ReadQuestion(q)

SpecReader == InitTestSets /\ [][NextReader]_vars

(***************************************************************************)
(* Claims about the item model.                                            *)
(***************************************************************************)
\* the inputs C1 calls valid: no overlap, all non-empty, all distinct
ValidOptionInput(distractor_values, answer) ==
    /\ answer \notin Range(distractor_values)
    /\ "" \notin Range(distractor_values) \cup {answer}
    /\ Distinct(distractor_values)

\* some value occurs more than once among the distractors and the answer
RepeatedValue(distractor_values, answer) ==
    ~Distinct(distractor_values \o <<answer>>)

\* C1: add_options with valid input on a question without options succeeds
\* and leaves one incorrect option per distractor and exactly one correct
\* option, whose value is the answer.
C1_ValidAddOptionsSucceeds ==
    (/\ lastAdd # None
     /\ lastAdd.before = {}
     /\ ValidOptionInput(lastAdd.distractor_values, lastAdd.answer))
    => /\ lastAdd.outcome = "ok"
       /\ LET opts == options[lastAdd.question]
          IN  /\ {o \in opts : ~o.is_correct}
                   = {[value |-> v, is_correct |-> FALSE] :
                        v \in Range(lastAdd.distractor_values)}
              /\ Cardinality({o \in opts : ~o.is_correct})
                   = Len(lastAdd.distractor_values)
              /\ {o \in opts : o.is_correct}
                   = {[value |-> lastAdd.answer, is_correct |-> TRUE]}

C1_Witness ==
    /\ lastAdd # None
    /\ lastAdd.before = {}
    /\ Len(lastAdd.distractor_values) = 2
    /\ ValidOptionInput(lastAdd.distractor_values, lastAdd.answer)
    /\ lastAdd.outcome = "ok"
    /\ Cardinality(options[lastAdd.question]) = 3

\* C2: add_options with the answer among the distractors fails with
\* AnswerIsDistractor and leaves the question's options as they were.
C2_AnswerAmongDistractorsRejected ==
    (/\ lastAdd # None
     /\ lastAdd.answer \in Range(lastAdd.distractor_values))
    => /\ lastAdd.outcome = "AnswerIsDistractor"
       /\ options[lastAdd.question] = lastAdd.before

C2_Witness ==
    /\ lastAdd # None
    /\ lastAdd.answer \in Range(lastAdd.distractor_values)
    /\ Len(lastAdd.distractor_values) = 2
    /\ lastAdd.before # {}
    /\ lastAdd.outcome = "AnswerIsDistractor"

\* C3 as stated: add_options with a repeated value among the distractors and
\* the answer fails with DuplicateOptionValue and creates no option.
C3_RepeatedValueIsDuplicateError ==
    (/\ lastAdd # None
     /\ RepeatedValue(lastAdd.distractor_values, lastAdd.answer))
    => /\ lastAdd.outcome = "DuplicateOptionValue"
       /\ options[lastAdd.question] = lastAdd.before

\* C3 as amended: add_options with a repeated value among the distractors
\* and the answer fails and creates no option; the error is
\* AnswerIsDistractor when the answer is among the distractors, else
\* EmptyOptionValue when some value is empty, else DuplicateOptionValue.
C3_RepeatedValueRejected ==
    (/\ lastAdd # None
     /\ RepeatedValue(lastAdd.distractor_values, lastAdd.answer))
    => /\ options[lastAdd.question] = lastAdd.before
       /\ lastAdd.outcome =
            IF lastAdd.answer \in Range(lastAdd.distractor_values)
            THEN "AnswerIsDistractor"
            ELSE IF "" \in Range(lastAdd.distractor_values) \cup {lastAdd.answer}
            THEN "EmptyOptionValue"
            ELSE "DuplicateOptionValue"

C3_Witness ==
    /\ lastAdd # None
    /\ RepeatedValue(lastAdd.distractor_values, lastAdd.answer)
    /\ lastAdd.answer \notin Range(lastAdd.distractor_values)
    /\ "" \notin Range(lastAdd.distractor_values) \cup {lastAdd.answer}
    /\ lastAdd.outcome = "DuplicateOptionValue"
    /\ options[lastAdd.question] = lastAdd.before

\* the pivot/kind invariant as C10 reads it
PivotInvariant(pivot, pivot_type) ==
    /\ pivot_type = "k" => Len(pivot) = 1
    /\ pivot_type = "w" => Len(pivot) >= 1

\* C10: constructing a Question fails with InvalidPivot exactly when the
\* pivot/kind invariant is violated (a kanji pivot that is not a single
\* character, a word pivot that is empty).
C10_InvalidPivotExactlyWhenViolated ==
    lastInit # None
    => (lastInit.outcome = "InvalidPivot"
          <=> ~PivotInvariant(lastInit.pivot, lastInit.pivot_type))

(***************************************************************************)
(* Claims about the sequencer, the scorer and the builder.                 *)
(***************************************************************************)
\* the position of id x among the sorted ids of S
Rank(x, S) == Cardinality({y \in S : y <= x})

\* the permutation of the sorted ids that an ordering applied
Pattern(e) == [i \in 1..Len(e.order) |-> Rank(e.order[i], e.questions)]

\* C4: ordered_questions is deterministic.  Every sequence it has returned
\* is a permutation of exactly the set's questions; two calls on the same
\* seed and the same question ids (the same set again, or another set)
\* returned the same sequence, whatever ran in between; and two sets with
\* the same seed and as many questions were ordered by the same permutation
\* of their sorted ids.
C4_OrderedQuestionsDeterministic ==
    /\ \A e \in ordLog :
         /\ Range(e.order) = e.questions
         /\ Len(e.order) = Cardinality(e.questions)
    /\ \A e1, e2 \in ordLog :
         (e1.random_seed = e2.random_seed /\ e1.questions = e2.questions)
         => e1.order = e2.order
    /\ \A e1, e2 \in ordLog :
         (/\ e1.random_seed = e2.random_seed
          /\ Cardinality(e1.questions) = Cardinality(e2.questions))
         => Pattern(e1) = Pattern(e2)

C4_Witness ==
    /\ last.op = "ordered_questions"
    /\ last.repeated
    /\ Len(last.order) = 2
    /\ last.order # OrderById(testsets[last.test_set].questions)
    /\ \E e \in ordLog :
         /\ e.test_set # last.test_set
         /\ e.random_seed = testsets[last.test_set].random_seed
         /\ Cardinality(e.questions) = 2

\* C5: ordered_responses fails with IncompleteCoverage whenever the set has
\* not as many responses as questions (and so returns no ordering).
C5_IncompleteCoverageRaised ==
    (/\ last.op = "ordered_responses"
     /\ Cardinality(testsets[last.test_set].responses)
          # Cardinality(testsets[last.test_set].questions))
    => last.outcome = "IncompleteCoverage"

\* C6: get_coverage and get_accuracy fail with EmptyTestSet on a test set
\* without questions.
C6_EmptyTestSetRaised ==
    (/\ last.op \in {"get_coverage", "get_accuracy"}
     /\ testsets[last.test_set].questions = {})
    => last.result.outcome = "EmptyTestSet"

\* the result of a score lies in [0,1]
InUnitInterval(result) ==
    /\ result.outcome = "ok"
    /\ 0 <= result.num
    /\ result.num <= result.den

\* no question of the set has two responses in the set
AtMostOneResponsePerQuestion(test_set) ==
    \A r1, r2 \in test_set.responses :
        r1.question = r2.question => r1 = r2

\* C7 as stated: for a test set with at least one question, coverage and
\* accuracy lie in [0,1] in every state that recorded responses reach.
C7_ScoresInUnitInterval ==
    \A t \in DOMAIN testsets :
        (build = None /\ testsets[t].questions # {})
        => /\ InUnitInterval(get_coverage(testsets[t]))
           /\ InUnitInterval(get_accuracy(testsets[t]))

\* C7 as amended: for a test set with at least one question in which no
\* question has more than one response, coverage and accuracy lie in [0,1].
C7_ScoresInUnitIntervalWhenAnsweredOnce ==
    \A t \in DOMAIN testsets :
        (/\ build = None
         /\ testsets[t].questions # {}
         /\ AtMostOneResponsePerQuestion(testsets[t]))
        => /\ InUnitInterval(get_coverage(testsets[t]))
           /\ InUnitInterval(get_accuracy(testsets[t]))
           /\ (last.op \in {"get_coverage", "get_accuracy"}
               /\ last.test_set = t) => InUnitInterval(last.result)

C7_Witness ==
    /\ last.op = "get_accuracy"
    /\ Cardinality(testsets[last.test_set].questions) = 2
    /\ Cardinality(testsets[last.test_set].responses) = 2
    /\ AtMostOneResponsePerQuestion(testsets[last.test_set])
    /\ last.result.outcome = "ok"
    /\ last.result.num = 1
    /\ last.result.den = 2

\* C8: a from_user call in which the chosen factory failed with
\* InsufficientDistractors goes on (with another factory, or without the
\* concept) and returns its test set: the failure never ends the call.
C8_BuilderSurvivesInsufficientDistractors ==
    last.op = "from_user" => last.outcome # "InsufficientDistractors"

\* the options of stored question q are well formed for its concept
WellFormedQuestion(q) ==
    LET correct == CorrectAnswers(questions[q].pivot)
    IN  /\ Cardinality({o \in options[q] : o.is_correct}) = 1
        /\ \A o \in options[q] : o.is_correct <=> (o.value \in correct)

C12_StoredOptionsInvariant ==
    \A q \in DOMAIN options :
        options[q] # {}
        => /\ Cardinality({o \in options[q] : o.is_correct}) = 1
           /\ \A o1, o2 \in options[q] : o1.value = o2.value => o1 = o2
           /\ \A o \in options[q] : o.value # ""

\* C13: a reader running beside a build never observes a partial result: a
\* test set it finds has its complete question list (QUESTIONS_PER_SET
\* questions of a full batch), and a question it finds has no options or
\* its complete option set, the correct option included; also when the
\* build fails part-way.
C13_ReaderSeesNoPartialResult ==
    /\ (last.op = "read_test_set" /\ last.found)
       => Cardinality(last.questions) = QuestionsPerSet
    /\ (last.op = "read_question" /\ last.found)
       => \/ last.options = {}
          \/ \E o \in last.options : o.is_correct

\* C14: a call of ordered_questions changes no state that another operation
\* reads: it leaves the process-wide generator, from which a later from_user
\* draws its random_seed and picks the factory of each concept, as it found
\* it, so the seed of a later build does not depend on what was ordered.
C14_OrderingLeavesGeneratorAlone ==
    [][(\E t \in DOMAIN testsets : OrderedQuestions(t)) => rng' = rng]_vars
====
